---------------------------- MODULE Spec2Model ----------------------------
(***************************************************************************)
(* A model of the three command-line tools of PatroAutoCommit:             *)
(*   patroAutoCommit.py  - commit the staged diff with a generated message *)
(*   PatroMessages.py    - daily report from the commits of a date window  *)
(*   generate_commit.py  - older commit-message generator (diff from file) *)
(* Each run of a tool is a sequential program; `pc' is its position.       *)
(* Everything outside the process (git, the generation service, the user,  *)
(* the clock, the clipboard) answers nondeterministically.                  *)
(***************************************************************************)
EXTENDS Integers, Sequences, FiniteSets, TLC

(***************************************************************************)
(* Bounds of the model.                                                    *)
(***************************************************************************)
\* diff lengths are drawn within SizeSlack of 0 and of the ceiling
SizeSlack == 1
\* a diff holds at most this many bytes beyond one per character
MaxExtraBytes == 1
\* git's raw output carries at most this many surrounding blanks
MaxPad == 1
\* texts typed by the user or returned by a service have at most this length
MaxText == 2
\* the message given on the command line has at most this length
MaxArg == 1
\* git log lists at most this many revisions
MaxCommits == 2
\* the focus typed by the user has at most this many characters
MaxFocus == 2
\* the clock is read on one of this many consecutive days
NDays == 75

(***************************************************************************)
(* Program constants.                                                      *)
(***************************************************************************)
MAX_DIFF_SIZE == 80000
\* width of the separator line that closes a rendered commit
SEPARATOR_WIDTH == 50
\* days looked back on a Monday, and on any other day
MONDAY_LOOKBACK == 3
DAILY_LOOKBACK == 1
\* proleptic Gregorian ordinal of 2023-12-25, the first day the clock may show
FirstDay == 738879

(***************************************************************************)
(* Python values.  A str is a sequence of one-character strings; an        *)
(* Optional[str] is a record, so that None differs from the empty string.  *)
(***************************************************************************)
None == [some |-> FALSE, val |-> <<>>]
Some(s) == [some |-> TRUE, val |-> s]
\* a file that does not exist; Some(text) is a file holding text
NoFile == None
\* Python truthiness of an Optional[str]: None and "" are falsy
Truthy(x) == x.some /\ x.val # <<>>

Blank == {" ", "\n"}

\* the backquote character, which a TLA+ string cannot hold
Backquote == "bq"

RECURSIVE LStrip(_)
LStrip(s) == IF s # <<>> /\ Head(s) \in Blank THEN LStrip(Tail(s)) ELSE s

RECURSIVE RStrip(_)
RStrip(s) ==
    IF s # <<>> /\ s[Len(s)] \in Blank THEN RStrip(SubSeq(s, 1, Len(s) - 1)) ELSE s

\* str.strip()
Strip(s) == RStrip(LStrip(s))

\* str.lower() on the letters the model uses
LowerChar(c) ==
    CASE c = "Y" -> "y"
      [] c = "S" -> "s"
      [] c = "N" -> "n"
      [] c = "E" -> "e"
      [] c = "A" -> "a"
      [] OTHER -> c

Lower(s) == [i \in 1..Len(s) |-> LowerChar(s[i])]

RECURSIVE RemoveChar(_, _)
\* str.replace(c, "")
RemoveChar(s, c) ==
    IF s = <<>> THEN <<>>
    ELSE IF Head(s) = c THEN RemoveChar(Tail(s), c)
    ELSE <<Head(s)>> \o RemoveChar(Tail(s), c)

RECURSIVE Split(_, _)
\* str.split(sep) for a one-character separator: "" splits into [""]
Split(s, sep) ==
    IF s = <<>> THEN << <<>> >>
    ELSE LET rest == Split(Tail(s), sep)
         IN  IF Head(s) = sep THEN << <<>> >> \o rest
             ELSE << <<Head(s)>> \o Head(rest) >> \o Tail(rest)

RECURSIVE JoinWith(_, _)
\* sep.join(list)
JoinWith(sep, l) ==
    IF l = <<>> THEN <<>>
    ELSE IF Len(l) = 1 THEN Head(l)
    ELSE Head(l) \o sep \o JoinWith(sep, Tail(l))

RECURSIVE Join(_)
\* "".join(list)
Join(l) == IF l = <<>> THEN <<>> ELSE Head(l) \o Join(Tail(l))

\* all sequences over S of length at most n
SeqUpTo(S, n) == UNION {[1..k -> S] : k \in 0..n}

(***************************************************************************)
(* Dates, as the datetime module computes them: a date is its proleptic    *)
(* Gregorian ordinal (0001-01-01 is day 1).                                *)
(***************************************************************************)
IsLeap(y) == y % 4 = 0 /\ (y % 100 # 0 \/ y % 400 = 0)

DaysInMonth(y, m) ==
    IF m = 2 THEN (IF IsLeap(y) THEN 29 ELSE 28)
    ELSE IF m \in {4, 6, 9, 11} THEN 30 ELSE 31

RECURSIVE DaysBeforeMonth(_, _)
DaysBeforeMonth(y, m) ==
    IF m = 1 THEN 0 ELSE DaysBeforeMonth(y, m - 1) + DaysInMonth(y, m - 1)

DaysBeforeYear(y) ==
    (y - 1) * 365 + ((y - 1) \div 4) - ((y - 1) \div 100) + ((y - 1) \div 400)

\* date(y, m, d).toordinal()
Ymd2Ord(y, m, d) == DaysBeforeYear(y) + DaysBeforeMonth(y, m) + d

\* date.fromordinal(n), as <<year, month, day>>
Ord2Ymd(ord) ==
    LET n0   == ord - 1
        n400 == n0 \div 146097
        r400 == n0 % 146097
        n100 == r400 \div 36524
        r100 == r400 % 36524
        n4   == r100 \div 1461
        r4   == r100 % 1461
        n1   == r4 \div 365
        n    == r4 % 365
        year == n400 * 400 + 1 + n100 * 100 + n4 * 4 + n1
    IN  IF n1 = 4 \/ n100 = 4 THEN <<year - 1, 12, 31>>
        ELSE
          LET guess == (n + 50) \div 32
              prec  == DaysBeforeMonth(year, guess)
              month == IF prec > n THEN guess - 1 ELSE guess
              before == DaysBeforeMonth(year, month)
          IN  <<year, month, n - before + 1>>

\* datetime.weekday(): 0 is Monday, 6 is Sunday
Weekday(ord) == (ord + 6) % 7

\* today - timedelta(days = k), today + timedelta(days = k)
MinusDays(ord, k) == ord - k
PlusDays(ord, k) == ord + k

Digits == <<"0", "1", "2", "3", "4", "5", "6", "7", "8", "9">>
Digit(k) == Digits[k + 1]

\* strftime('%Y-%m-%d'): four-digit year, two-digit month and day
Strftime(ord) ==
    LET ymd == Ord2Ymd(ord)
        y == ymd[1]
        m == ymd[2]
        d == ymd[3]
    IN  << Digit(y \div 1000), Digit((y \div 100) % 10), Digit((y \div 10) % 10),
           Digit(y % 10), "-", Digit(m \div 10), Digit(m % 10), "-",
           Digit(d \div 10), Digit(d % 10) >>

(***************************************************************************)
(* The state of one run.                                                   *)
(***************************************************************************)
VARIABLES
    tool,               \* the script that runs
    pc,                 \* its position
    exitCode,           \* the process exit code, Running until it ends
    \* patroAutoCommit.py (and generate_commit.py)
    staged_diff,        \* main's staged_diff
    diff_size,          \* main's diff_size
    staged_diff_gml,    \* main's staged_diff_gml
    user_summary,       \* main's user_summary, None until it is read
    stage,              \* narrowing stage of staged_diff: FULL, FILTERED, NONE
    additional_message, \* main's additional_message
    message,            \* the generated commit message
    choice,             \* the last answer at the commit or the push prompt
    \* PatroMessages.py
    show_hashes,        \* the setting loaded by load_settings
    today,              \* get_commits_by_date_range: datetime.now(), as an ordinal
    since_date,         \* get_commits_by_date_range: since_date
    until_date,         \* get_commits_by_date_range: until_date
    result,             \* get_commits_by_date_range: stdout of git log, None if it failed
    valid_hashes,       \* get_commits_by_date_range: valid_hashes
    fetched,            \* what git show answered for each revision, in order
    messages,           \* compile_messages: messages
    ret,                \* value returned by get_commits_by_date_range
    raw_commits,        \* main's raw_commits
    custom_advances,    \* main's custom_advances
    focus,              \* main's focus
    blocks,             \* main's blocks
    report,             \* main's report
    \* effects on the world
    genCalls,           \* prompts handed to the generation service, in order
    gitCalls,           \* git add / commit / push invocations, in order
    clipboard,          \* texts copied to the clipboard, in order
    reportFile,         \* content of the report file, None if absent
    debugFile,          \* content of last_prompt_for_debug.txt, None if absent
    hit                 \* the fatal preconditions the run has run into

vars == << tool, pc, exitCode, staged_diff, diff_size, staged_diff_gml,
           user_summary, stage, additional_message, message, choice,
           show_hashes, today, since_date, until_date, valid_hashes, fetched,
           messages, ret, raw_commits, custom_advances, focus, blocks, report,
           genCalls, gitCalls, clipboard, reportFile, debugFile, result, hit >>

acVars == << staged_diff, diff_size, staged_diff_gml, user_summary, stage,
            additional_message, message >>

drVars == << show_hashes, today, since_date, until_date, result, valid_hashes, fetched,
             messages, ret, raw_commits, custom_advances, focus, blocks, report >>

fxVars == << genCalls, gitCalls, clipboard, reportFile, debugFile >>

Running == 0 - 1
NoDay == FirstDay - 1
NoSize == 0 - 1

Tools == {"patroAutoCommit", "PatroMessages", "generate_commit"}
Ended == {"exited", "returned", "crashed"}

(***************************************************************************)
(* What the outside world can answer.                                      *)
(***************************************************************************)
\* a diff text: its length in characters (len(str)) and in UTF-8 bytes
NoneDiff == [some |-> FALSE, len |-> 0, bytes |-> 0]
EmptyDiff == [some |-> TRUE, len |-> 0, bytes |-> 0]
TruthyDiff(d) == d.some /\ d.len > 0

DiffLens == (0..SizeSlack) \cup
            ((MAX_DIFF_SIZE - SizeSlack)..(MAX_DIFF_SIZE + SizeSlack))

\* raw stdout of git diff: `pad' surrounding blanks (one byte each) around a
\* text of n characters, of which at most MaxExtraBytes bytes are beyond ASCII
GitDiffOutputs ==
    { [len |-> n + p, bytes |-> n + e + p, pad |-> p] :
        <<n, e, p>> \in { t \in DiffLens \X (0..MaxExtraBytes) \X (0..MaxPad) :
                            t[2] <= 3 * t[1] } }

\* result.stdout.strip()
StripDiff(raw) ==
    [some |-> TRUE, len |-> raw.len - raw.pad, bytes |-> raw.bytes - raw.pad]

\* run_git_command(["git", "diff", ...]): None on any failure
RunGitDiff == {NoneDiff} \cup {StripDiff(r) : r \in GitDiffOutputs}

TRUE_STR == <<"t", "r", "u", "e">>
FALSE_STR == <<"f", "a", "l", "s", "e">>

\* run_git_command(["git", "rev-parse", "--is-inside-work-tree"], check=False):
\* None when git is missing, else stdout stripped, whatever the return code
RevParseResults ==
    {None} \cup {Some(Strip(o)) : o \in {TRUE_STR \o <<"\n">>, FALSE_STR \o <<"\n">>, <<>>}}

\* what the user types at a y/n prompt
Choices == {<<"y">>, <<"Y">>, <<"s">>, <<"n">>, <<"e">>, <<"E">>, <<"x">>, <<>>}

\* what the user types at a free-text prompt
Texts == SeqUpTo({"a", " "}, MaxText)

\* what the additional message of the command line holds
ArgTexts == SeqUpTo({"a", " "}, MaxArg)

\* what response.text of the generation service holds
Responses == SeqUpTo({"a", " ", Backquote}, MaxText)

NOTE ==
    <<"\n", "\n", "N", "o", "t", "e", ":", " ", "T", "h", "e", " ", "f",
      "u", "l", "l", " ", "d", "i", "f", "f", " ", "w", "a", "s", " ", "i",
      "g", "n", "o", "r", "e", "d", " ", "d", "u", "e", " ", "t", "o", " ",
      "i", "t", "s", " ", "l", "a", "r", "g", "e", " ", "s", "i", "z", "e",
      ".">>

BEAR_IN_MIND ==
    <<"I", "t", "'", "s", " ", "i", "m", "p", "o", "r", "t", "a", "n", "t",
      " ", "t", "o", " ", "b", "e", "a", "r", " ", "t", "h", "e", " ", "f",
      "o", "l", "l", "o", "w", "i", "n", "g", " ", "i", "n", " ", "m", "i",
      "n", "d", ":", " ">>

(***************************************************************************)
(* Ways a run ends.                                                        *)
(***************************************************************************)
\* sys.exit(code)
SysExit(code) == pc' = "exited" /\ exitCode' = code

\* main returns and the interpreter ends normally
ReturnFromMain == pc' = "returned" /\ exitCode' = 0

\* an exception nobody catches: traceback, exit code 1
Uncaught == pc' = "crashed" /\ exitCode' = 1

(***************************************************************************)
(* patroAutoCommit.py                                                      *)
(***************************************************************************)
\* __main__: the run goes on only inside a work tree
AC_CheckRepo ==
    /\ tool = "patroAutoCommit" /\ pc = "start"
    /\ \E r \in RevParseResults :
         IF r = Some(TRUE_STR) THEN pc' = "diff" /\ exitCode' = exitCode /\ hit' = hit
         ELSE /\ SysExit(1)
              /\ hit' = hit \cup {IF r = None THEN "git_missing" ELSE "not_work_tree"}
    /\ UNCHANGED << tool, choice, acVars, drVars, fxVars >>

\* main: staged_diff = run_git_command(["git", "diff", "--cached"])
AC_GetStagedDiff ==
    /\ tool = "patroAutoCommit" /\ pc = "diff"
    /\ \E d \in RunGitDiff :
         /\ staged_diff' = d
         /\ IF ~d.some THEN SysExit(1)
            ELSE IF d.len = 0 THEN pc' = "askAdd" /\ exitCode' = exitCode
            ELSE pc' = "size" /\ exitCode' = exitCode
    /\ UNCHANGED << tool, choice, hit, diff_size, staged_diff_gml, user_summary, stage,
                    additional_message, message, drVars, fxVars >>

\* main: nothing staged; offer git add . and look at the diff again
AC_AskAdd ==
    /\ tool = "patroAutoCommit" /\ pc = "askAdd"
    /\ \E c \in Choices :
         IF Lower(c) \in {<<"y">>, <<"s">>}
         THEN \E ok \in BOOLEAN, d \in RunGitDiff :
                /\ gitCalls' = Append(gitCalls, [cmd |-> "add", msg |-> <<>>, ok |-> ok])
                /\ staged_diff' = d
                /\ IF ~TruthyDiff(d) THEN SysExit(0)
                   ELSE pc' = "size" /\ exitCode' = exitCode
         ELSE SysExit(0) /\ UNCHANGED << staged_diff, gitCalls >>
    /\ UNCHANGED << tool, choice, hit, diff_size, staged_diff_gml, user_summary, stage,
                    additional_message, message, drVars,
                    genCalls, clipboard, reportFile, debugFile >>

\* AC_CheckSize with the comparison off by one (>= for >)
AC_CheckSize_OffByOne ==
    /\ tool = "patroAutoCommit" /\ pc = "size"
    /\ stage' = "FULL"
    /\ diff_size' = staged_diff.len
    /\ \E arg \in ArgTexts : additional_message' = arg
    /\ pc' = IF diff_size' >= MAX_DIFF_SIZE THEN "narrow" ELSE "configure"
    /\ UNCHANGED << tool, choice, hit, exitCode, staged_diff, staged_diff_gml, user_summary,
                    message, drVars, fxVars >>

\* main: diff_size = len(staged_diff); additional_message from argv
AC_CheckSize ==
    /\ tool = "patroAutoCommit" /\ pc = "size"
    /\ stage' = "FULL"
    /\ diff_size' = staged_diff.len
    /\ \E arg \in ArgTexts : additional_message' = arg
    /\ pc' = IF diff_size' > MAX_DIFF_SIZE THEN "narrow" ELSE "configure"
    /\ UNCHANGED << tool, choice, hit, exitCode, staged_diff, staged_diff_gml, user_summary,
                    message, drVars, fxVars >>

\* AC_NarrowDiff taking any non-empty *.gml diff, whatever its size
AC_NarrowDiff_NoSizeCheck ==
    /\ tool = "patroAutoCommit" /\ pc = "narrow"
    /\ \E g \in RunGitDiff :
         /\ staged_diff_gml' = g
         /\ IF TruthyDiff(g)
            THEN /\ staged_diff' = g
                 /\ stage' = "FILTERED"
                 /\ pc' = "configure"
            ELSE /\ staged_diff' = staged_diff
                 /\ stage' = "NONE"
                 /\ pc' = "summary"
    /\ UNCHANGED << tool, choice, hit, exitCode, diff_size, user_summary, additional_message,
                    message, drVars, fxVars >>

\* main: too large; try the diff of the *.gml files alone
AC_NarrowDiff ==
    /\ tool = "patroAutoCommit" /\ pc = "narrow"
    /\ \E g \in RunGitDiff :
         /\ staged_diff_gml' = g
         /\ IF TruthyDiff(g) /\ g.len <= MAX_DIFF_SIZE
            THEN /\ staged_diff' = g
                 /\ stage' = "FILTERED"
                 /\ pc' = "configure"
            ELSE /\ staged_diff' = staged_diff
                 /\ stage' = "NONE"
                 /\ pc' = "summary"
    /\ UNCHANGED << tool, choice, hit, exitCode, diff_size, user_summary, additional_message,
                    message, drVars, fxVars >>

\* AC_ReadSummary without the .strip() on what the user typed
AC_ReadSummary_NoStrip ==
    /\ tool = "patroAutoCommit" /\ pc = "summary"
    /\ \E typed \in Texts :
         /\ user_summary' = Some(typed)
         /\ IF typed = <<>>
            THEN /\ SysExit(1) /\ hit' = hit \cup {"empty_summary"}
                 /\ UNCHANGED << staged_diff, additional_message >>
            ELSE /\ additional_message' = typed \o NOTE
                 /\ staged_diff' = EmptyDiff
                 /\ pc' = "configure" /\ exitCode' = exitCode /\ hit' = hit
    /\ UNCHANGED << tool, choice, diff_size, staged_diff_gml, stage, message, drVars, fxVars >>

\* main: the diff is ignored; a manual summary is required
AC_ReadSummary ==
    /\ tool = "patroAutoCommit" /\ pc = "summary"
    /\ \E typed \in Texts :
         LET summary == Strip(typed)
         IN  /\ user_summary' = Some(summary)
             /\ IF summary = <<>>
                THEN /\ SysExit(1) /\ hit' = hit \cup {"empty_summary"}
                     /\ UNCHANGED << staged_diff, additional_message >>
                ELSE /\ additional_message' = summary \o NOTE
                     /\ staged_diff' = EmptyDiff
                     /\ pc' = "configure" /\ exitCode' = exitCode /\ hit' = hit
    /\ UNCHANGED << tool, choice, diff_size, staged_diff_gml, stage, message, drVars, fxVars >>

\* main: load_master_prompt, then configure_gemini_model exits without a key
AC_Configure ==
    /\ tool = "patroAutoCommit" /\ pc = "configure"
    /\ \E haveKey \in BOOLEAN :
         IF haveKey THEN pc' = "generate" /\ exitCode' = exitCode /\ hit' = hit
         ELSE SysExit(1) /\ hit' = hit \cup {"no_credential"}
    /\ UNCHANGED << tool, choice, acVars, drVars, fxVars >>

\* generate_commit_message: the context line of the prompt
ContextMessage(additional) ==
    IF additional # <<>> THEN BEAR_IN_MIND \o additional ELSE <<>>

\* generate_commit_message: response.text.strip().replace("`", "")
CleanResponse(text) == RemoveChar(Strip(text), Backquote)

\* how a call of the generation service went
Outcome(raised, out) ==
    IF raised THEN "exception" ELSE IF ~Truthy(out) THEN "empty" ELSE "ok"

\* main: message = generate_commit_message(...); no message ends the run
AC_Generate ==
    /\ tool = "patroAutoCommit" /\ pc = "generate"
    /\ \E master \in {"custom", "default", "fallback"}, raised \in BOOLEAN,
          text \in Responses :
         LET out == IF raised THEN None ELSE Some(CleanResponse(text))
         IN  /\ genCalls' = Append(genCalls,
                   [master |-> master, context |-> ContextMessage(additional_message),
                    diff |-> staged_diff, outcome |-> Outcome(raised, out)])
             /\ message' = out
             /\ IF ~Truthy(out) THEN SysExit(1)
                ELSE pc' = "confirm" /\ exitCode' = exitCode
    /\ UNCHANGED << tool, choice, hit, staged_diff, diff_size, staged_diff_gml, user_summary,
                    stage, additional_message, drVars,
                    gitCalls, clipboard, reportFile, debugFile >>

\* AC_Confirm asking again after a failed commit
AC_Confirm_RetryOnFailure ==
    /\ tool = "patroAutoCommit" /\ pc = "confirm"
    /\ \E c \in Choices :
         /\ choice' = Lower(c)
         /\ IF choice' \in {<<"y">>, <<"s">>, <<"e">>}
            THEN \E ok \in BOOLEAN :
                   /\ gitCalls' = Append(gitCalls,
                         [cmd |-> IF choice' = <<"e">> THEN "commit --edit" ELSE "commit",
                          msg |-> message.val, ok |-> ok])
                   /\ IF ok THEN pc' = "push" /\ exitCode' = exitCode
                      ELSE IF Len(gitCalls) < MaxCommits THEN UNCHANGED << pc, exitCode >>
                      ELSE ReturnFromMain
            ELSE IF choice' = <<"n">>
            THEN ReturnFromMain /\ gitCalls' = gitCalls
            ELSE UNCHANGED << pc, exitCode, gitCalls >>
    /\ UNCHANGED << tool, hit, acVars, drVars, genCalls, clipboard, reportFile, debugFile >>

\* AC_Confirm going on to the push prompt whether the commit succeeded or not
AC_Confirm_PushAfterFailure ==
    /\ tool = "patroAutoCommit" /\ pc = "confirm"
    /\ \E c \in Choices :
         /\ choice' = Lower(c)
         /\ IF choice' \in {<<"y">>, <<"s">>, <<"e">>}
            THEN \E ok \in BOOLEAN :
                   /\ gitCalls' = Append(gitCalls,
                         [cmd |-> IF choice' = <<"e">> THEN "commit --edit" ELSE "commit",
                          msg |-> message.val, ok |-> ok])
                   /\ pc' = "push" /\ exitCode' = exitCode
            ELSE IF choice' = <<"n">>
            THEN ReturnFromMain /\ gitCalls' = gitCalls
            ELSE UNCHANGED << pc, exitCode, gitCalls >>
    /\ UNCHANGED << tool, hit, acVars, drVars, genCalls, clipboard, reportFile, debugFile >>

\* main: the commit prompt; y/s commits, e commits with --edit, n aborts,
\* anything else asks again
AC_Confirm ==
    /\ tool = "patroAutoCommit" /\ pc = "confirm"
    /\ \E c \in Choices :
         /\ choice' = Lower(c)
         /\ IF choice' \in {<<"y">>, <<"s">>, <<"e">>}
            THEN \E ok \in BOOLEAN :
                   /\ gitCalls' = Append(gitCalls,
                         [cmd |-> IF choice' = <<"e">> THEN "commit --edit" ELSE "commit",
                          msg |-> message.val, ok |-> ok])
                   /\ IF ok THEN pc' = "push" /\ exitCode' = exitCode
                      ELSE ReturnFromMain
            ELSE IF choice' = <<"n">>
            THEN ReturnFromMain /\ gitCalls' = gitCalls
            ELSE UNCHANGED << pc, exitCode, gitCalls >>
    /\ UNCHANGED << tool, hit, acVars, drVars, genCalls, clipboard, reportFile, debugFile >>

\* AC_HandlePush taking every answer but n for a yes
AC_HandlePush_InvalidPushes ==
    /\ tool = "patroAutoCommit" /\ pc = "push"
    /\ \E c \in Choices :
         /\ choice' = Lower(c)
         /\ IF choice' # <<"n">>
            THEN \E ok \in BOOLEAN :
                   /\ gitCalls' = Append(gitCalls,
                         [cmd |-> "push", msg |-> <<>>, ok |-> ok])
                   /\ ReturnFromMain
            ELSE IF choice' = <<"n">>
            THEN ReturnFromMain /\ gitCalls' = gitCalls
            ELSE UNCHANGED << pc, exitCode, gitCalls >>
    /\ UNCHANGED << tool, hit, acVars, drVars, genCalls, clipboard, reportFile, debugFile >>

\* handle_push: y/s pushes, n skips, anything else asks again
AC_HandlePush ==
    /\ tool = "patroAutoCommit" /\ pc = "push"
    /\ \E c \in Choices :
         /\ choice' = Lower(c)
         /\ IF choice' \in {<<"y">>, <<"s">>}
            THEN \E ok \in BOOLEAN :
                   /\ gitCalls' = Append(gitCalls,
                         [cmd |-> "push", msg |-> <<>>, ok |-> ok])
                   /\ ReturnFromMain
            ELSE IF choice' = <<"n">>
            THEN ReturnFromMain /\ gitCalls' = gitCalls
            ELSE UNCHANGED << pc, exitCode, gitCalls >>
    /\ UNCHANGED << tool, hit, acVars, drVars, genCalls, clipboard, reportFile, debugFile >>

(***************************************************************************)
(* PatroMessages.py                                                        *)
(***************************************************************************)
\* characters outside ASCII, and the emoji markers of the report, by name
C_CEDILLA == "C-cedilla"
ROCKET == "rocket"
PENCIL_MARK == ":pencil:"
PENCIL_EMOJI == "pencil-emoji"

COMMIT_HASH_LABEL ==
    <<"C", "o", "m", "m", "i", "t", " ", "H", "a", "s", "h", ":", " ">>

TIMESTAMP_LABEL ==
    <<"T", "i", "m", "e", "s", "t", "a", "m", "p", ":", " ">>

MANUAL_HEADER ==
    <<"\n", "-", "-", "-", " ", "A", "V", "A", "N", C_CEDILLA, "O", "S",
      " ", "M", "A", "N", "U", "A", "I", "S", " ", "A", "D", "I", "C", "I",
      "O", "N", "A", "I", "S", " ", "-", "-", "-", "\n">>

REPORT_HEADER ==
    <<"@", "e", "v", "e", "r", "y", "o", "n", "e", " ", ROCKET, " ", "H",
      "o", "r", "a", " ", "d", "o", " ", "D", "a", "i", "l", "y", " ", "R",
      "e", "p", "o", "r", "t", "!", " ", ROCKET, "\n", "\n">>

\* an author date as git show prints it
TIMESTAMP ==
    <<"2", "0", "2", "4", "-", "0", "1", "-", "0", "8", " ", "1", "0", ":",
      "0", "0", ":", "0", "0">>

EDITED == <<"e", "d", "i", "t", "e", "d">>

\* revision ids
HashIds == {<<"a">>, <<"b">>}

\* stdout of git log --pretty=format:%H: revision ids, one per line
LogOutputs ==
    {JoinWith(<<"\n">>, l) \o nl : l \in SeqUpTo(HashIds, MaxCommits),
                                   nl \in {<<>>, <<"\n">>}}

\* stdout of git show --pretty=format:%B: no message, a blank one, a message
MessageOutputs == {<<>>, <<"\n">>, <<"m">>, <<"m", "\n">>}

\* get_commit_message: None when git show fails, else stdout stripped
CommitMessages == {None} \cup {Some(Strip(o)) : o \in MessageOutputs}

\* get_commit_timestamp: None when git show fails, else stdout stripped
CommitTimestamps == {None, Some(Strip(TIMESTAMP \o <<"\n">>))}

\* response.text of the generation service
ReportResponses == {<<>>, <<" ">>, <<"a">>, <<PENCIL_MARK, "a", "\n">>}

\* what the user types for the focus and for the blockers
FocusTexts == SeqUpTo({"a", ",", " "}, MaxFocus)
BlockTexts == {<<>>, <<" ">>, <<"a">>, <<"A">>, <<"n", "/", "a">>, <<"N", "/", "A">>,
               <<"N", "e", "n", "h", "u", "m">>}

\* main: show_hashes handed to get_commits_by_date_range
RAW_SHOW_HASHES == TRUE

\* "-" * 50
Dashes(n) == [i \in 1..n |-> "-"]

\* FormatMessage without the newline that ends the message line
FormatMessage_NoNewline(commit_hash, timestamp, msg, showHashes) ==
    (IF showHashes THEN COMMIT_HASH_LABEL \o commit_hash \o <<"\n">> ELSE <<>>)
    \o TIMESTAMP_LABEL \o timestamp \o <<"\n">>
    \o msg
    \o Dashes(SEPARATOR_WIDTH) \o <<"\n">>

\* format_message
FormatMessage(commit_hash, timestamp, msg, showHashes) ==
    (IF showHashes THEN COMMIT_HASH_LABEL \o commit_hash \o <<"\n">> ELSE <<>>)
    \o TIMESTAMP_LABEL \o timestamp \o <<"\n">>
    \o msg \o <<"\n">>
    \o Dashes(SEPARATOR_WIDTH) \o <<"\n">>

\* ValidHashes without the filter that drops the empty lines
ValidHashes_NoFilter(stdout) == Split(Strip(stdout), "\n")

\* get_commits_by_date_range: the hashes kept from the output of git log
ValidHashes(stdout) ==
    SelectSeq(Split(Strip(stdout), "\n"), LAMBDA h : h # <<>>)

\* DaysToLookBack taking Sunday (6) for the first day of the week
DaysToLookBack_Sunday(now) ==
    IF Weekday(now) = 6 THEN MONDAY_LOOKBACK ELSE DAILY_LOOKBACK

\* get_commits_by_date_range: days to look back from today
DaysToLookBack(now) == IF Weekday(now) = 0 THEN MONDAY_LOOKBACK ELSE DAILY_LOOKBACK

\* main: settings = load_settings(); show_hashes = settings.get(...)
DR_LoadSettings ==
    /\ tool = "PatroMessages" /\ pc = "start"
    /\ \E sh \in BOOLEAN : show_hashes' = sh
    /\ pc' = "configure"
    /\ UNCHANGED << tool, choice, exitCode, hit, acVars, today, since_date, until_date,
                    result, valid_hashes, fetched, messages, ret, raw_commits,
                    custom_advances, focus, blocks, report, fxVars >>

\* main: model = configure_gemini_model(); without a model main returns
DR_Configure ==
    /\ tool = "PatroMessages" /\ pc = "configure"
    /\ \E haveKey \in BOOLEAN, configured \in BOOLEAN :
         IF haveKey /\ configured
         THEN pc' = "window" /\ exitCode' = exitCode /\ hit' = hit
         ELSE /\ ReturnFromMain
              /\ hit' = IF haveKey THEN hit ELSE hit \cup {"no_credential"}
    /\ UNCHANGED << tool, choice, acVars, drVars, fxVars >>

\* get_commits_by_date_range: the window, from the clock
DR_ComputeWindow ==
    /\ tool = "PatroMessages" /\ pc = "window"
    /\ \E now \in FirstDay..(FirstDay + NDays - 1) :
         /\ today' = now
         /\ since_date' = Strftime(MinusDays(now, DaysToLookBack(now)))
         /\ until_date' = Strftime(PlusDays(now, 1))
    /\ pc' = "log"
    /\ UNCHANGED << tool, choice, exitCode, hit, acVars, show_hashes, result, valid_hashes,
                    fetched, messages, ret, raw_commits, custom_advances, focus,
                    blocks, report, fxVars >>

\* get_commits_by_date_range: git log over the window.  today, since_date and
\* until_date are not read after the command is built: they end here.
DR_GitLog ==
    /\ tool = "PatroMessages" /\ pc = "log"
    /\ today' = NoDay /\ since_date' = <<>> /\ until_date' = <<>>
    /\ \/ \* git is not installed: FileNotFoundError, which nothing catches
          /\ Uncaught
          /\ hit' = hit \cup {"git_missing"}
          /\ UNCHANGED << result, valid_hashes, ret >>
       \/ \* git log fails: CalledProcessError, None is returned
          /\ \E why \in {"not_work_tree", "other"} :
               hit' = IF why = "other" THEN hit ELSE hit \cup {why}
          /\ result' = None
          /\ ret' = None
          /\ pc' = "gotCommits" /\ exitCode' = exitCode
          /\ UNCHANGED valid_hashes
       \/ \E stdout \in LogOutputs :
            /\ result' = Some(stdout)
            /\ valid_hashes' = ValidHashes(stdout)
            /\ IF valid_hashes' = <<>>
               THEN ret' = None /\ pc' = "gotCommits"
               ELSE ret' = ret /\ pc' = "compile"
            /\ exitCode' = exitCode /\ hit' = hit
    /\ UNCHANGED << tool, choice, acVars, show_hashes, fetched, messages, raw_commits,
                    custom_advances, focus, blocks, report, fxVars >>

\* DR_CompileStep testing the message alone (if msg:)
DR_CompileStep_MsgOnly ==
    /\ tool = "PatroMessages" /\ pc = "compile"
    /\ LET h == valid_hashes[Len(fetched) + 1]
       IN  \E msg \in CommitMessages, timestamp \in CommitTimestamps :
             /\ fetched' = Append(fetched, [hash |-> h, msg |-> msg, ts |-> timestamp])
             /\ messages' =
                  IF Truthy(msg)
                  THEN Append(messages,
                              FormatMessage(h, timestamp.val, msg.val, RAW_SHOW_HASHES))
                  ELSE messages
             /\ IF Len(fetched') = Len(valid_hashes)
                THEN ret' = Some(Join(messages')) /\ pc' = "gotCommits"
                ELSE ret' = ret /\ pc' = pc
    /\ UNCHANGED << tool, choice, exitCode, hit, acVars, show_hashes, today, since_date,
                    until_date, result, valid_hashes, raw_commits, custom_advances,
                    focus, blocks, report, fxVars >>

\* compile_messages: one turn of the loop, and the join after the last
DR_CompileStep ==
    /\ tool = "PatroMessages" /\ pc = "compile"
    /\ LET h == valid_hashes[Len(fetched) + 1]
       IN  \E msg \in CommitMessages, timestamp \in CommitTimestamps :
             /\ fetched' = Append(fetched, [hash |-> h, msg |-> msg, ts |-> timestamp])
             /\ messages' =
                  IF Truthy(msg) /\ Truthy(timestamp)
                  THEN Append(messages,
                              FormatMessage(h, timestamp.val, msg.val, RAW_SHOW_HASHES))
                  ELSE messages
             /\ IF Len(fetched') = Len(valid_hashes)
                THEN ret' = Some(Join(messages')) /\ pc' = "gotCommits"
                ELSE ret' = ret /\ pc' = pc
    /\ UNCHANGED << tool, choice, exitCode, hit, acVars, show_hashes, today, since_date,
                    until_date, result, valid_hashes, raw_commits, custom_advances,
                    focus, blocks, report, fxVars >>

\* main: raw_commits = get_commits_by_date_range(...) and the first prompt
DR_ReadAdvances ==
    /\ tool = "PatroMessages" /\ pc = "gotCommits"
    /\ raw_commits' = ret
    /\ result' = None /\ valid_hashes' = <<>> /\ fetched' = <<>> /\ messages' = <<>>
    /\ ret' = None
    /\ \E typed \in Texts : custom_advances' = Strip(typed)
    /\ pc' = "askFocus"
    /\ UNCHANGED << tool, choice, exitCode, hit, acVars, show_hashes, today, since_date,
                    until_date, focus, blocks, report, fxVars >>

\* main: focus = input(...).strip()
DR_ReadFocus ==
    /\ tool = "PatroMessages" /\ pc = "askFocus"
    /\ \E typed \in FocusTexts : focus' = Strip(typed)
    /\ pc' = "askBlocks"
    /\ UNCHANGED << tool, choice, exitCode, hit, acVars, show_hashes, today, since_date,
                    until_date, result, valid_hashes, fetched, messages, ret,
                    raw_commits, custom_advances, blocks, report, fxVars >>

\* main: blocks = input(...).strip(); with neither commits nor manual
\* advances main returns
DR_ReadBlocks ==
    /\ tool = "PatroMessages" /\ pc = "askBlocks"
    /\ \E typed \in BlockTexts : blocks' = Strip(typed)
    /\ IF ~Truthy(raw_commits) /\ custom_advances = <<>>
       THEN ReturnFromMain
       ELSE pc' = "report" /\ exitCode' = exitCode
    /\ UNCHANGED << tool, choice, hit, acVars, show_hashes, today, since_date,
                    until_date, result, valid_hashes, fetched, messages, ret,
                    raw_commits, custom_advances, focus, report, fxVars >>

\* generate_daily_report: the commits and the manual advances.  Called only
\* where raw_commits is a str: None + str raises TypeError.
AllAdvances(raw, custom) ==
    IF custom # <<>> THEN raw.val \o MANUAL_HEADER \o custom \o <<"\n">>
    ELSE raw.val

BULLET == <<"*", " ">>
NOT_AVAILABLE == <<"N", "/", "A">>
NENHUM == <<"n", "e", "n", "h", "u", "m">>

\* generate_daily_report: one "* item" line per non-blank item of focus
FocusList(f) ==
    IF f # <<>>
    THEN LET items == SelectSeq(Split(f, ","), LAMBDA item : Strip(item) # <<>>)
         IN  JoinWith(<<"\n">>, [i \in DOMAIN items |-> BULLET \o Strip(items[i])])
    ELSE BULLET \o NOT_AVAILABLE

\* BlocksText comparing the blockers as typed, without .lower()
BlocksText_CaseSensitive(b) ==
    IF Strip(b) \in {Lower(NOT_AVAILABLE), NENHUM, <<>>}
    THEN NOT_AVAILABLE ELSE b

\* generate_daily_report: the blockers, or N/A
BlocksText(b) ==
    IF Strip(Lower(b)) \in {Lower(NOT_AVAILABLE), NENHUM, <<>>}
    THEN NOT_AVAILABLE ELSE b

\* generate_daily_report: the variable parts of user_prompt, in order
UserPrompt(raw, custom, f, b) ==
    [advances |-> AllAdvances(raw, custom),
     focus_list |-> FocusList(f),
     blocks_text |-> BlocksText(b)]

\* generate_daily_report: text.replace(":pencil:", the emoji)
ReplaceMarkers(text) ==
    [i \in DOMAIN text |-> IF text[i] = PENCIL_MARK THEN PENCIL_EMOJI ELSE text[i]]

\* DR_Generate writing the debug file after the call, when it returned text
DR_Generate_SaveAfterCall ==
    /\ tool = "PatroMessages" /\ pc = "report"
    /\ IF custom_advances # <<>> /\ ~raw_commits.some
       THEN \* all_advances_input += ... on None: TypeError, outside the try
            /\ Uncaught
            /\ UNCHANGED << report, genCalls, debugFile >>
       ELSE LET user_prompt == UserPrompt(raw_commits, custom_advances, focus, blocks)
            IN  \E saved \in BOOLEAN,
                   answer \in {[how |-> "exception", text |-> <<>>],
                               [how |-> "blocked", text |-> <<>>]}
                              \cup {[how |-> "text", text |-> t] : t \in ReportResponses} :
                  LET out == IF answer.how = "text"
                             THEN Some(ReplaceMarkers(Strip(answer.text)))
                             ELSE None
                  IN  /\ debugFile' = IF saved /\ answer.how = "text"
                                       THEN Some(user_prompt) ELSE debugFile
                      /\ genCalls' = Append(genCalls,
                            [prompt |-> user_prompt, saved |-> saved,
                             outcome |-> IF answer.how = "text" THEN Outcome(FALSE, out)
                                         ELSE answer.how])
                      /\ report' = out
                      /\ IF ~Truthy(out) THEN ReturnFromMain
                         ELSE pc' = "output" /\ exitCode' = exitCode
    /\ UNCHANGED << tool, choice, hit, acVars, show_hashes, today, since_date, until_date,
                    result, valid_hashes, fetched, messages, ret, raw_commits,
                    custom_advances, focus, blocks, gitCalls, clipboard, reportFile >>

\* main: report = generate_daily_report(...); without a report main returns.
\* The prompt is written to the debug file before the call; a failed write
\* (saved = FALSE) is reported and the call goes on.
DR_Generate ==
    /\ tool = "PatroMessages" /\ pc = "report"
    /\ IF custom_advances # <<>> /\ ~raw_commits.some
       THEN \* all_advances_input += ... on None: TypeError, outside the try
            /\ Uncaught
            /\ UNCHANGED << report, genCalls, debugFile >>
       ELSE LET user_prompt == UserPrompt(raw_commits, custom_advances, focus, blocks)
            IN  \E saved \in BOOLEAN,
                   answer \in {[how |-> "exception", text |-> <<>>],
                               [how |-> "blocked", text |-> <<>>]}
                              \cup {[how |-> "text", text |-> t] : t \in ReportResponses} :
                  LET out == IF answer.how = "text"
                             THEN Some(ReplaceMarkers(Strip(answer.text)))
                             ELSE None
                  IN  /\ debugFile' = IF saved THEN Some(user_prompt) ELSE debugFile
                      /\ genCalls' = Append(genCalls,
                            [prompt |-> user_prompt, saved |-> saved,
                             outcome |-> IF answer.how = "text" THEN Outcome(FALSE, out)
                                         ELSE answer.how])
                      /\ report' = out
                      /\ IF ~Truthy(out) THEN ReturnFromMain
                         ELSE pc' = "output" /\ exitCode' = exitCode
    /\ UNCHANGED << tool, choice, hit, acVars, show_hashes, today, since_date, until_date,
                    result, valid_hashes, fetched, messages, ret, raw_commits,
                    custom_advances, focus, blocks, gitCalls, clipboard, reportFile >>

\* main: write daily_report.txt, then copy; a failed copy is only a warning
DR_Output ==
    /\ tool = "PatroMessages" /\ pc = "output"
    /\ LET full_report_text == REPORT_HEADER \o report.val
       IN  /\ reportFile' = Some(full_report_text)
           /\ \E copied \in BOOLEAN :
                clipboard' = IF copied THEN Append(clipboard, full_report_text)
                             ELSE clipboard
    /\ pc' = "save"
    /\ UNCHANGED << tool, choice, exitCode, hit, acVars, drVars, genCalls, gitCalls, debugFile >>

\* main: keep the file (perhaps edited by the user) or remove it
DR_AskSave ==
    /\ tool = "PatroMessages" /\ pc = "save"
    /\ \E save_choice \in Choices :
         IF Lower(Strip(save_choice)) = <<"s">>
         THEN \E edit_choice \in Choices :
                IF Lower(Strip(edit_choice)) = <<"s">>
                THEN \E newText \in {reportFile.val, EDITED} :
                       reportFile' = Some(newText)
                ELSE reportFile' = reportFile
         ELSE reportFile' = NoFile
    /\ ReturnFromMain
    /\ UNCHANGED << tool, choice, hit, acVars, drVars, genCalls, gitCalls, clipboard, debugFile >>

(***************************************************************************)
(* generate_commit.py                                                      *)
(***************************************************************************)
ERROR_PREFIX ==
    <<"E", "r", "r", "o", "r", " ", "g", "e", "n", "e", "r", "a", "t", "i",
      "n", "g", " ", "c", "o", "m", "m", "i", "t", " ", "m", "e", "s", "s",
      "a", "g", "e", ":", " ">>

\* str(e) of an exception
EXC_TEXT == <<"e", "r", "r">>

\* module level: without GEMINI_API_KEY the script exits
GC_LoadKey ==
    /\ tool = "generate_commit" /\ pc = "start"
    /\ \E haveKey \in BOOLEAN :
         IF haveKey THEN pc' = "args" /\ exitCode' = exitCode /\ hit' = hit
         ELSE SysExit(1) /\ hit' = hit \cup {"no_credential"}
    /\ UNCHANGED << tool, choice, acVars, drVars, fxVars >>

\* __main__: the two arguments
GC_Args ==
    /\ tool = "generate_commit" /\ pc = "args"
    /\ \E enough \in BOOLEAN, arg \in ArgTexts :
         IF enough
         THEN additional_message' = arg /\ pc' = "read" /\ exitCode' = exitCode
         ELSE SysExit(1) /\ additional_message' = additional_message
    /\ UNCHANGED << tool, choice, hit, staged_diff, diff_size, staged_diff_gml, user_summary,
                    stage, message, drVars, fxVars >>

\* __main__: diff = f.read(); a blank diff ends the run
GC_ReadDiff ==
    /\ tool = "generate_commit" /\ pc = "read"
    /\ \/ \* the file is missing or unreadable
          SysExit(1) /\ staged_diff' = staged_diff
       \/ \E raw \in GitDiffOutputs :
            /\ staged_diff' = [some |-> TRUE, len |-> raw.len, bytes |-> raw.bytes]
            /\ IF StripDiff(raw).len = 0 THEN SysExit(0)
               ELSE pc' = "generate" /\ exitCode' = exitCode
    /\ UNCHANGED << tool, choice, hit, diff_size, staged_diff_gml, user_summary, stage,
                    additional_message, message, drVars, fxVars >>

\* generate_commit_message: an exception becomes the returned text
GC_Generate ==
    /\ tool = "generate_commit" /\ pc = "generate"
    /\ \E raised \in BOOLEAN, text \in Responses :
         LET out == IF raised THEN Some(ERROR_PREFIX \o EXC_TEXT)
                    ELSE Some(CleanResponse(text))
         IN  /\ message' = out
             /\ genCalls' = Append(genCalls,
                   [master |-> "builtin", context |-> ContextMessage(additional_message),
                    diff |-> staged_diff,
                    outcome |-> Outcome(raised, out)])
    /\ pc' = "copy"
    /\ UNCHANGED << tool, choice, exitCode, hit, staged_diff, diff_size, staged_diff_gml,
                    user_summary, stage, additional_message, drVars,
                    gitCalls, clipboard, reportFile, debugFile >>

\* __main__: print the message and copy it; a failed copy ends the run
GC_Copy ==
    /\ tool = "generate_commit" /\ pc = "copy"
    /\ \E copied \in BOOLEAN :
         IF copied
         THEN /\ clipboard' = Append(clipboard, message.val)
              /\ pc' = "staged" /\ exitCode' = exitCode
         ELSE SysExit(1) /\ clipboard' = clipboard
    /\ UNCHANGED << tool, choice, hit, acVars, drVars, genCalls, gitCalls, reportFile, debugFile >>

\* __main__: list the staged files, offer git add . when there is none
GC_CheckStaged ==
    /\ tool = "generate_commit" /\ pc = "staged"
    /\ \/ \E why \in {"git_missing", "not_work_tree", "other"} :
            /\ SysExit(1)
            /\ hit' = IF why = "other" THEN hit ELSE hit \cup {why}
            /\ gitCalls' = gitCalls
       \/ \* some file is staged
          pc' = "commit" /\ UNCHANGED << exitCode, hit, gitCalls >>
       \/ \* none is
          \E resp_add \in Choices :
            IF Lower(Strip(resp_add)) = <<"s">>
            THEN \E ok \in BOOLEAN :
                   /\ gitCalls' = Append(gitCalls, [cmd |-> "add", msg |-> <<>>, ok |-> ok])
                   /\ IF ok THEN pc' = "commit" /\ exitCode' = exitCode
                      ELSE SysExit(1)
                   /\ hit' = hit
            ELSE pc' = "commit" /\ UNCHANGED << exitCode, hit, gitCalls >>
    /\ UNCHANGED << tool, choice, acVars, drVars, genCalls, clipboard, reportFile, debugFile >>

\* __main__: commit with the message on "s"
GC_AskCommit ==
    /\ tool = "generate_commit" /\ pc = "commit"
    /\ \E resp_commit \in Choices :
         IF Lower(Strip(resp_commit)) = <<"s">>
         THEN \E ok \in BOOLEAN :
                /\ gitCalls' = Append(gitCalls,
                      [cmd |-> "commit", msg |-> message.val, ok |-> ok])
                /\ IF ok THEN pc' = "push" /\ exitCode' = exitCode
                   ELSE SysExit(1)
         ELSE pc' = "push" /\ UNCHANGED << exitCode, gitCalls >>
    /\ UNCHANGED << tool, choice, hit, acVars, drVars, genCalls, clipboard, reportFile, debugFile >>

\* __main__: push on "s"
GC_AskPush ==
    /\ tool = "generate_commit" /\ pc = "push"
    /\ \E resp_push \in Choices :
         IF Lower(Strip(resp_push)) = <<"s">>
         THEN \E ok \in BOOLEAN :
                /\ gitCalls' = Append(gitCalls, [cmd |-> "push", msg |-> <<>>, ok |-> ok])
                /\ IF ok THEN pc' = "pr" /\ exitCode' = exitCode
                   ELSE SysExit(1)
         ELSE pc' = "pr" /\ UNCHANGED << exitCode, gitCalls >>
    /\ UNCHANGED << tool, choice, hit, acVars, drVars, genCalls, clipboard, reportFile, debugFile >>

\* __main__: offer to open the pull-request page, then end
GC_AskPR ==
    /\ tool = "generate_commit" /\ pc = "pr"
    /\ ReturnFromMain
    /\ UNCHANGED << tool, choice, hit, acVars, drVars, fxVars >>

Init ==
    /\ tool \in Tools
    /\ pc = "start"
    /\ exitCode = Running
    /\ staged_diff = NoneDiff
    /\ diff_size = NoSize
    /\ staged_diff_gml = NoneDiff
    /\ user_summary = None
    /\ stage = "UNSET"
    /\ additional_message = <<>>
    /\ message = None
    /\ choice = <<>>
    /\ show_hashes = TRUE
    /\ today = NoDay
    /\ since_date = <<>>
    /\ until_date = <<>>
    /\ result = None
    /\ valid_hashes = <<>>
    /\ fetched = <<>>
    /\ messages = <<>>
    /\ ret = None
    /\ raw_commits = None
    /\ custom_advances = <<>>
    /\ focus = <<>>
    /\ blocks = <<>>
    /\ report = None
    /\ genCalls = <<>>
    /\ gitCalls = <<>>
    /\ clipboard = <<>>
    /\ reportFile = NoFile
    /\ debugFile = NoFile
    /\ hit = {}

NextAC ==
    \/ AC_CheckRepo
    \/ AC_GetStagedDiff
    \/ AC_AskAdd
    \/ AC_CheckSize
    \/ AC_NarrowDiff
    \/ AC_ReadSummary
    \/ AC_Configure
    \/ AC_Generate
    \/ AC_Confirm
    \/ AC_HandlePush

NextDR ==
    \/ DR_LoadSettings
    \/ DR_Configure
    \/ DR_ComputeWindow
    \/ DR_GitLog
    \/ DR_CompileStep
    \/ DR_ReadAdvances
    \/ DR_ReadFocus
    \/ DR_ReadBlocks
    \/ DR_Generate
    \/ DR_Output
    \/ DR_AskSave

NextGC ==
    \/ GC_LoadKey
    \/ GC_Args
    \/ GC_ReadDiff
    \/ GC_Generate
    \/ GC_Copy
    \/ GC_CheckStaged
    \/ GC_AskCommit
    \/ GC_AskPush
    \/ GC_AskPR

Next == NextAC \/ NextDR \/ NextGC

\* one run of patroAutoCommit.py
InitAC == Init /\ tool = "patroAutoCommit"
SpecAC == InitAC /\ [][NextAC]_vars

\* one run of patroAutoCommit.py in which every call returns and the user,
\* asked again and again, ends up giving an answer the prompt accepts
LiveSpecAC ==
    /\ InitAC /\ [][NextAC]_vars
    /\ WF_vars(NextAC /\ pc' # pc)

\* one run of PatroMessages.py
InitDR == Init /\ tool = "PatroMessages"
SpecDR == InitDR /\ [][NextDR]_vars

\* one run of generate_commit.py
InitGC == Init /\ tool = "generate_commit"
SpecGC == InitGC /\ [][NextGC]_vars

\* one run of any of the tools
Spec == Init /\ [][Next]_vars

(***************************************************************************)
(* format_message, called on its own.                                      *)
(***************************************************************************)
\* the messages and the timestamps format_message may be handed
FormatTexts == SeqUpTo({"m", "-", "\n"}, MaxText)
FormatTimestamps == {TIMESTAMP, <<"-">>}

\* the arguments commit_hash, timestamp, message in fetched, show_hashes
InitFM ==
    /\ tool = "format_message"
    /\ pc = "start"
    /\ exitCode = Running
    /\ staged_diff = NoneDiff
    /\ diff_size = NoSize
    /\ staged_diff_gml = NoneDiff
    /\ user_summary = None
    /\ stage = "UNSET"
    /\ additional_message = <<>>
    /\ message = None
    /\ choice = <<>>
    /\ show_hashes \in BOOLEAN
    /\ today = NoDay
    /\ since_date = <<>>
    /\ until_date = <<>>
    /\ result = None
    /\ valid_hashes = <<>>
    /\ \E h \in HashIds, t \in FormatTimestamps, m \in FormatTexts :
         fetched = << [hash |-> h, msg |-> Some(m), ts |-> Some(t)] >>
    /\ messages = <<>>
    /\ ret = None
    /\ raw_commits = None
    /\ custom_advances = <<>>
    /\ focus = <<>>
    /\ blocks = <<>>
    /\ report = None
    /\ genCalls = <<>>
    /\ gitCalls = <<>>
    /\ clipboard = <<>>
    /\ reportFile = NoFile
    /\ debugFile = NoFile
    /\ hit = {}

\* format_message(commit_hash, timestamp, message, show_hashes)
FM_Call ==
    /\ tool = "format_message" /\ pc = "start"
    /\ ret' = Some(FormatMessage(fetched[1].hash, fetched[1].ts.val,
                                 fetched[1].msg.val, show_hashes))
    /\ pc' = "returned"
    /\ UNCHANGED << tool, choice, exitCode, hit, acVars, show_hashes, today, since_date,
                    until_date, result, valid_hashes, fetched, messages, raw_commits,
                    custom_advances, focus, blocks, report, fxVars >>

NextFM == FM_Call

SpecFM == InitFM /\ [][NextFM]_vars

(***************************************************************************)
(* The claims.                                                             *)
(***************************************************************************)
\* the diffs patroAutoCommit handed to generate_commit_message
HandedDiffs == {genCalls[i].diff : i \in DOMAIN genCalls}

\* C1: in patroAutoCommit, no diff handed to generate_commit_message is longer
\* than MAX_DIFF_SIZE bytes.  The code bounds len(staged_diff), the number of
\* characters, so a diff with non-ASCII characters breaks the byte bound.
C1_HandedDiffWithinCeilingBytes ==
    tool = "patroAutoCommit" => \A d \in HandedDiffs : d.bytes <= MAX_DIFF_SIZE

\* the narrowing of patroAutoCommit has chosen its stage
NarrowingEnded == tool = "patroAutoCommit" /\ stage # "UNSET" /\ pc # "narrow"

\* the *.gml diff was available, non-empty and within the ceiling
FilteredUsable == TruthyDiff(staged_diff_gml) /\ staged_diff_gml.len <= MAX_DIFF_SIZE

\* C2: the narrowing ends in exactly one stage, decided by the sizes alone:
\* FULL iff the full diff is within the ceiling, FILTERED iff it is not and
\* the *.gml diff is available, non-empty and within the ceiling, NONE in every
\* other case; the diff submitted is the full, the filtered, the empty one.
C2_StageBySizes ==
    NarrowingEnded =>
      /\ stage \in {"FULL", "FILTERED", "NONE"}
      /\ (stage = "FULL") = (diff_size <= MAX_DIFF_SIZE)
      /\ (stage = "FILTERED") = (diff_size > MAX_DIFF_SIZE /\ FilteredUsable)
      /\ (stage = "NONE") = (diff_size > MAX_DIFF_SIZE /\ ~FilteredUsable)
      /\ \A d \in HandedDiffs :
           /\ stage = "FULL" => d.some /\ d.len = diff_size
           /\ stage = "FILTERED" => d = staged_diff_gml
           /\ stage = "NONE" => d = EmptyDiff

\* the filtered query failed and the run submitted the empty diff
C2_Witness ==
    /\ stage = "NONE" /\ staged_diff_gml = NoneDiff
    /\ diff_size > MAX_DIFF_SIZE /\ genCalls # <<>>

Rank(st) ==
    CASE st = "UNSET" -> 0
      [] st = "FULL" -> 1
      [] st = "FILTERED" -> 2
      [] st = "NONE" -> 3

\* one step of the run keeps the narrowing one-way and shrinking
NarrowingStep ==
    /\ Rank(stage') >= Rank(stage)
    /\ stage # "UNSET" => staged_diff'.len <= staged_diff.len
    /\ (stage = "FULL" /\ stage' = "FILTERED") =>
          staged_diff'.len < staged_diff.len

\* C3: the stages follow FULL -> FILTERED -> NONE and never go back; the
\* payload never grows, the filtered payload is strictly smaller than the full
\* one, and the payload submitted at NONE is empty.
C3_NarrowingMonotonic ==
    /\ [][NarrowingStep]_vars
    /\ [](stage = "NONE" /\ pc \in {"configure", "generate", "confirm", "push"}
            => staged_diff.len = 0)

\* a run that went FULL -> FILTERED and submitted the smaller diff
C3_Witness ==
    /\ stage = "FILTERED" /\ genCalls # <<>>
    /\ staged_diff.len < diff_size

\* C4: at NONE with an empty summary (after trimming) the run exits with code
\* 1, having called neither the generation service nor git commit or push.
C4_EmptySummaryIsFatal ==
    (/\ tool = "patroAutoCommit" /\ stage = "NONE"
     /\ user_summary.some /\ Strip(user_summary.val) = <<>>)
    => /\ pc = "exited" /\ exitCode = 1
       /\ genCalls = <<>>
       /\ \A i \in DOMAIN gitCalls : gitCalls[i].cmd = "add"

\* the run was asked for a summary, got none, and ended
C4_Witness ==
    /\ stage = "NONE" /\ user_summary = Some(<<>>)
    /\ pc = "exited"

\* the value of a decimal digit
DigitValue(c) == CHOOSE k \in 0..9 : Digits[k + 1] = c

\* the day a YYYY-MM-DD text names, as an ordinal
ParseDate(t) ==
    Ymd2Ord(DigitValue(t[1]) * 1000 + DigitValue(t[2]) * 100
              + DigitValue(t[3]) * 10 + DigitValue(t[4]),
            DigitValue(t[6]) * 10 + DigitValue(t[7]),
            DigitValue(t[9]) * 10 + DigitValue(t[10]))

\* Monday 2024-01-08, and the Mondays counted from it
KnownMonday == Ymd2Ord(2024, 1, 8)
IsMonday(day) == (day - KnownMonday) % 7 = 0

DATE_2024_01_05 ==
    <<"2", "0", "2", "4", "-", "0", "1", "-", "0", "5">>

DATE_2024_01_09 ==
    <<"2", "0", "2", "4", "-", "0", "1", "-", "0", "9">>

\* C5: the window goes from today - lookback to today + 1, with lookback 3 on
\* a Monday and 1 on any other day: 4 days wide on a Monday, 2 days otherwise,
\* since before until; Monday 2024-01-08 gives 2024-01-05 and 2024-01-09.
C5_DateWindow ==
    (tool = "PatroMessages" /\ pc = "log") =>
      LET since == ParseDate(since_date)
          until == ParseDate(until_date)
      IN  /\ Len(since_date) = 10 /\ Len(until_date) = 10
          /\ since = today - (IF IsMonday(today) THEN 3 ELSE 1)
          /\ until = today + 1
          /\ until - since = (IF IsMonday(today) THEN 4 ELSE 2)
          /\ since < until
          /\ today = KnownMonday =>
               since_date = DATE_2024_01_05 /\ until_date = DATE_2024_01_09

\* the window computed on Monday 2024-01-08
C5_Witness ==
    /\ pc = "log" /\ today = KnownMonday
    /\ since_date = DATE_2024_01_05 /\ until_date = DATE_2024_01_09

\* a revision's fetches both succeeded; with nonEmpty, both also returned text
BothFetched(rec, nonEmpty) ==
    /\ rec.msg.some /\ rec.ts.some
    /\ nonEmpty => (rec.msg.val # <<>> /\ rec.ts.val # <<>>)

RECURSIVE ExpectedReport(_, _)
\* the blocks of the revisions that count, in the order given
ExpectedReport(f, nonEmpty) ==
    IF f = <<>> THEN <<>>
    ELSE (IF BothFetched(Head(f), nonEmpty)
          THEN FormatMessage(Head(f).hash, Head(f).ts.val, Head(f).msg.val,
                             RAW_SHOW_HASHES)
          ELSE <<>>)
         \o ExpectedReport(Tail(f), nonEmpty)

\* compile_messages has returned
Compiled == tool = "PatroMessages" /\ pc = "gotCommits" /\ fetched # <<>>

\* C6 as claimed: the report is the concatenation, in the order given, of one
\* block per revision whose message fetch and timestamp fetch both succeeded.
C6_ReportOfFetched ==
    Compiled =>
      /\ [i \in DOMAIN fetched |-> fetched[i].hash] = valid_hashes
      /\ ret = Some(ExpectedReport(fetched, FALSE))

\* C6 as amended: the report is the concatenation, in the order given, of one
\* block per revision whose message fetch and timestamp fetch both succeeded
\* and returned non-empty text; every other revision contributes nothing.
C6_ReportOfNonEmptyFetched ==
    Compiled =>
      /\ [i \in DOMAIN fetched |-> fetched[i].hash] = valid_hashes
      /\ ret = Some(ExpectedReport(fetched, TRUE))

\* two revisions: one whose message fetch failed, then one that is rendered
C6_Witness ==
    /\ Compiled /\ Len(fetched) = 2
    /\ ~fetched[1].msg.some
    /\ Truthy(fetched[2].msg) /\ Truthy(fetched[2].ts)
    /\ ret = Some(FormatMessage(valid_hashes[2], fetched[2].ts.val,
                                fetched[2].msg.val, TRUE))

IsBlank(t) == \A i \in DOMAIN t : t[i] \in Blank

\* C7: when git log succeeds and prints no revision, valid_hashes is empty,
\* nothing is raised and get_commits_by_date_range returns None, not "".
C7_EmptyWindowReturnsNone ==
    (tool = "PatroMessages" /\ result.some /\ IsBlank(result.val)) =>
      /\ pc = "gotCommits"
      /\ valid_hashes = <<>>
      /\ ret = None /\ ret # Some(<<>>)

\* git log printed a lone newline
C7_Witness ==
    /\ tool = "PatroMessages" /\ pc = "gotCommits"
    /\ result = Some(<<"\n">>) /\ ret = None

\* sub occurs in t
Contains(t, sub) ==
    \E i \in 0..(Len(t) - Len(sub)) : SubSeq(t, i + 1, i + Len(sub)) = sub

\* C8: in PatroMessages, when no commits are found and the user gives manual
\* advances, the run assembles a prompt holding them and submits it.  With
\* raw_commits None, generate_daily_report raises TypeError before that.
C8_ManualAdvancesRecover ==
    (/\ tool = "PatroMessages" /\ pc \in Ended \cup {"output", "save"}
     /\ ~Truthy(raw_commits) /\ custom_advances # <<>>)
    => /\ Len(genCalls) = 1
       /\ Contains(genCalls[1].prompt.advances, custom_advances)

\* a call of the generation service failed in this run
GenerationFailed == \E i \in DOMAIN genCalls : genCalls[i].outcome # "ok"

\* C9: after a failed generation call no tool writes the clipboard or the
\* report file or invokes git commit or git push.  generate_commit.py returns
\* the error text as the message and goes on.
C9_GenerationFailureIsFatal ==
    GenerationFailed =>
      /\ clipboard = <<>>
      /\ reportFile = NoFile
      /\ \A i \in DOMAIN gitCalls : gitCalls[i].cmd = "add"

\* C10: a run of PatroMessages or patroAutoCommit that hit a fatal
\* precondition ends with exit code 1.  PatroMessages main returns, exit code
\* 0, without a credential and, outside a work tree, without manual advances.
C10_FatalPreconditionExitsOne ==
    (/\ tool \in {"PatroMessages", "patroAutoCommit"}
     /\ pc \in Ended /\ hit # {})
    => exitCode = 1

\* a step in which the clipboard write was tried and failed
FailedCopyStep ==
    /\ \/ tool = "generate_commit" /\ pc = "copy"
       \/ tool = "PatroMessages" /\ pc = "output"
    /\ pc' # pc
    /\ clipboard' = clipboard

\* C11: in generate_commit and PatroMessages a failed clipboard write is only
\* a warning: the run goes on to its next prompt and its exit code is not set.
\* generate_commit.py calls pyperclip.copy under the outer except Exception,
\* which ends the run with exit code 1.
C11_ClipboardFailureIsWarning ==
    [][FailedCopyStep => (pc' \in {"staged", "save"} /\ exitCode' = exitCode)]_vars

\* the rendered block starts with the "Commit Hash: " line
HasHashLine(block) ==
    /\ Len(block) >= Len(COMMIT_HASH_LABEL)
    /\ SubSeq(block, 1, Len(COMMIT_HASH_LABEL)) = COMMIT_HASH_LABEL

\* C12: in the report collected by PatroMessages main, every rendered block
\* holds the "Commit Hash: <id>" line iff the loaded show_hashes is true.
\* main hands the literal True to get_commits_by_date_range, so the line is
\* there whatever the setting.
C12_ShowHashesControlsOutput ==
    Compiled => \A i \in DOMAIN messages : HasHashLine(messages[i]) <=> show_hashes

\* the non-blank items of a comma-separated focus, trimmed
FocusItems(f) ==
    LET parts == Split(f, ",")
        kept  == SelectSeq(parts, LAMBDA item : ~IsBlank(item))
    IN  [i \in DOMAIN kept |-> Strip(kept[i])]

\* the focus block is one "* item" line per item, in order, joined by newlines
IsBulletList(block, items) ==
    /\ items # <<>>
    /\ block = JoinWith(<<"\n">>, [i \in DOMAIN items |-> <<"*", " ">> \o items[i]])

\* the prompts PatroMessages handed to the generation service
ReportCalls == IF tool = "PatroMessages" THEN genCalls ELSE <<>>

\* C13: the focus block of the prompt is the bullet list of the non-blank
\* items, or the N/A placeholder when there is none, and is never empty.
\* A focus made of commas alone is truthy and has no item: the block is "".
C13_FocusBlockNeverEmpty ==
    \A i \in DOMAIN ReportCalls :
      LET block == ReportCalls[i].prompt.focus_list
          items == FocusItems(focus)
      IN  /\ block # <<>>
          /\ IF items = <<>> THEN Contains(block, <<"N", "/", "A">>)
             ELSE IsBulletList(block, items)

\* t is word, letter case apart
SameWord(t, word) ==
    /\ Len(t) = Len(word)
    /\ \A i \in DOMAIN t : LowerChar(t[i]) = LowerChar(word[i])

\* the blockers are empty after trimming or a negation word in any case
NoBlockers(b) ==
    \/ IsBlank(b)
    \/ SameWord(b, <<"n", "/", "a">>)
    \/ SameWord(b, <<"n", "e", "n", "h", "u", "m">>)

\* C14: the blockers block of the prompt is N/A when the blockers are empty
\* after trimming or a negation word (n/a, nenhum) in any letter case, and is
\* the text as given otherwise.
C14_BlockersPlaceholder ==
    \A i \in DOMAIN ReportCalls :
      ReportCalls[i].prompt.blocks_text =
        IF NoBlockers(blocks) THEN <<"N", "/", "A">> ELSE blocks

\* a prompt built from "Nenhum" typed with a capital, and one from a text
C14_Witness ==
    /\ tool = "PatroMessages" /\ genCalls # <<>>
    /\ blocks = <<"N", "e", "n", "h", "u", "m">>
    /\ genCalls[1].prompt.blocks_text = <<"N", "/", "A">>

\* format_message has returned its block
Formatted == tool = "format_message" /\ pc = "returned"

\* C15: whatever the id, timestamp, message and show_hashes, the block ends
\* with exactly 50 dashes and a newline: the last character is a newline, the
\* 50 before it are dashes and the one before those is a newline.
C15_BlockEndsWithSeparator ==
    Formatted =>
      LET block == ret.val
          n == Len(block)
      IN  /\ n >= 52
          /\ block[n] = "\n"
          /\ \A i \in (n - 50)..(n - 1) : block[i] = "-"
          /\ block[n - 51] = "\n"

\* a block without the hash line whose message ends with a dash
C15_Witness ==
    /\ Formatted /\ ~show_hashes
    /\ fetched[1].msg.val = <<"m", "-">>

\* the calls of PatroMessages that were reported as failed
FailedReportCalls == {i \in DOMAIN ReportCalls : ReportCalls[i].outcome # "ok"}

CallsOf(cmds) ==
    {i \in DOMAIN gitCalls : tool = "patroAutoCommit" /\ gitCalls[i].cmd \in cmds}

COMMIT_CMDS == {"commit", "commit --edit"}

\* C17: in a run of patroAutoCommit nothing is retried: the generation service
\* is called at most once, git commit at most once, git push at most once, and
\* a failed commit ends the run instead of asking again.
C17_NothingRetried ==
    tool = "patroAutoCommit" =>
      /\ Len(genCalls) <= 1
      /\ Cardinality(CallsOf(COMMIT_CMDS)) <= 1
      /\ Cardinality(CallsOf({"push"})) <= 1
      /\ \A i \in CallsOf(COMMIT_CMDS) : ~gitCalls[i].ok => pc = "returned"

\* the commit failed and the run ended, nothing pushed
C17_Witness ==
    /\ tool = "patroAutoCommit" /\ pc = "returned"
    /\ \E i \in CallsOf(COMMIT_CMDS) : ~gitCalls[i].ok
    /\ CallsOf({"push"}) = {}

\* a step of patroAutoCommit that invokes git commit or git push
InvokesStep(cmds) ==
    /\ tool = "patroAutoCommit"
    /\ Len(gitCalls') = Len(gitCalls) + 1
    /\ gitCalls'[Len(gitCalls')].cmd \in cmds

\* a commit of this run succeeded
Committed == \E i \in CallsOf(COMMIT_CMDS) : gitCalls[i].ok

CommitStepInOrder ==
    InvokesStep(COMMIT_CMDS) =>
      /\ Truthy(message) /\ genCalls # <<>>
      /\ gitCalls'[Len(gitCalls')].msg = message.val
      /\ choice' \in {<<"y">>, <<"s">>, <<"e">>}

PushStepInOrder ==
    InvokesStep({"push"}) =>
      /\ Committed
      /\ choice' \in {<<"y">>, <<"s">>}

\* C18: git commit is invoked only after a non-empty message was generated and
\* the user answered y, s or e; git push only after a commit of the same run
\* succeeded and the user answered y or s; no run pushes after a failed or a
\* declined commit.
C18_CommitThenPush ==
    /\ [][CommitStepInOrder /\ PushStepInOrder]_vars
    /\ [](CallsOf({"push"}) # {} => Committed)

\* a run that committed and then pushed
C18_Witness ==
    /\ tool = "patroAutoCommit" /\ pc = "returned"
    /\ Committed /\ CallsOf({"push"}) # {}

\* the answers each prompt of patroAutoCommit accepts
ValidChoices(at) ==
    IF at = "confirm" THEN {<<"y">>, <<"s">>, <<"e">>, <<"n">>}
    ELSE {<<"y">>, <<"s">>, <<"n">>}

\* an answer at the commit or the push prompt: an invalid one invokes nothing
\* and asks again, a valid one ends the prompt
PromptStep ==
    (tool = "patroAutoCommit" /\ pc \in {"confirm", "push"}) =>
      IF choice' \in ValidChoices(pc) THEN pc' # pc
      ELSE pc' = pc /\ gitCalls' = gitCalls /\ exitCode' = exitCode

\* C19: a run of patroAutoCommit in which every call returns and the user ends
\* up giving a valid answer at each prompt terminates; an invalid answer at
\* the commit or the push prompt invokes no git command and asks again, and
\* the first valid answer ends that prompt.
C19_Terminates ==
    /\ <>(pc \in Ended)
    /\ [][PromptStep]_vars

\* the push prompt asking again after an answer it does not accept
C19_Witness ==
    /\ tool = "patroAutoCommit" /\ pc = "push"
    /\ choice = <<"e">>
    /\ \E i \in DOMAIN gitCalls : gitCalls[i].cmd = "commit"

=============================================================================
